---- MODULE Spec2Model ----
(***************************************************************************)
(* A model of nputop.py: the two parsers of the npu-smi report             *)
(* (parse_device_section, parse_process_section) and the poll loop of      *)
(* main with its fault flag exception_triggered, the tables it builds and  *)
(* the refresh of the live display.  The display is a terminal (rich's     *)
(* Console.is_terminal, not a dumb one) wide enough for every column, on   *)
(* which Live.refresh draws the layout it was given.                       *)
(*                                                                         *)
(* Text is modelled character by character: a Python str is a sequence of  *)
(* one-character strings, and a report is the sequence of its lines (the   *)
(* text in which every line is followed by "\n"; the empty report <<>> is  *)
(* the empty string).                                                      *)
(***************************************************************************)
EXTENDS Integers, Sequences, FiniteSets, TLC

VARIABLES
    pc,                   \* position of the running code
    output,               \* the report text, as its sequence of lines
    data_lines,           \* parse_device_section: the candidate data lines
    i,                    \* parse_device_section: index of the pair loop (0-based)
    devices,              \* parse_device_section: the records built so far
    raised,               \* "none", or the exception that left the function
    exception_triggered,  \* the module-level fault flag
    k,                    \* parse_process_section: lines scanned so far
    in_process_section,   \* parse_process_section: the scanner's state
    process_lines,        \* parse_process_section: lines kept by the scanner
    j,                    \* parse_process_section: lines of process_lines built so far
    processes_by_npu,     \* parse_process_section: the map under construction
    device_table,         \* main: the rows of the device table built last
    process_table,        \* main: the rows of the process table built last
    last_decision,        \* what the latest render decision did to the display
    prev_nodata           \* TRUE while the latest cycle was a no-data cycle

vars == << pc, output, data_lines, i, devices, raised, exception_triggered, k,
           in_process_section, process_lines, j, processes_by_npu,
           device_table, process_table, last_decision, prev_nodata >>

devVars  == << data_lines, i, devices >>
procVars == << k, in_process_section, process_lines, j, processes_by_npu >>
tableVars == << device_table, process_table >>
mainVars == << last_decision, prev_nodata >>

(***************************************************************************)
(* Python's str primitives.  A character outside printable ASCII is        *)
(* written by its code point, as in "U+00A0" (the tab, the line feed, the  *)
(* carriage return and the form feed are "\t", "\n", "\r" and "\f"); each  *)
(* such string stands for the one character.  The three character classes  *)
(* are those of the Unicode tables of CPython 3.11 (Unicode 14).           *)
(***************************************************************************)
DigitChars == << "0", "1", "2", "3", "4", "5", "6", "7", "8", "9" >>

\* the decimal digits (category Nd), ten to a script, in the order of their values
DecimalBlocks ==
    << << "0", "1", "2", "3", "4", "5", "6", "7", "8", "9" >>,
       << "U+0660", "U+0661", "U+0662", "U+0663", "U+0664",
          "U+0665", "U+0666", "U+0667", "U+0668", "U+0669" >>,
       << "U+06F0", "U+06F1", "U+06F2", "U+06F3", "U+06F4",
          "U+06F5", "U+06F6", "U+06F7", "U+06F8", "U+06F9" >>,
       << "U+07C0", "U+07C1", "U+07C2", "U+07C3", "U+07C4",
          "U+07C5", "U+07C6", "U+07C7", "U+07C8", "U+07C9" >>,
       << "U+0966", "U+0967", "U+0968", "U+0969", "U+096A",
          "U+096B", "U+096C", "U+096D", "U+096E", "U+096F" >>,
       << "U+09E6", "U+09E7", "U+09E8", "U+09E9", "U+09EA",
          "U+09EB", "U+09EC", "U+09ED", "U+09EE", "U+09EF" >>,
       << "U+0A66", "U+0A67", "U+0A68", "U+0A69", "U+0A6A",
          "U+0A6B", "U+0A6C", "U+0A6D", "U+0A6E", "U+0A6F" >>,
       << "U+0AE6", "U+0AE7", "U+0AE8", "U+0AE9", "U+0AEA",
          "U+0AEB", "U+0AEC", "U+0AED", "U+0AEE", "U+0AEF" >>,
       << "U+0B66", "U+0B67", "U+0B68", "U+0B69", "U+0B6A",
          "U+0B6B", "U+0B6C", "U+0B6D", "U+0B6E", "U+0B6F" >>,
       << "U+0BE6", "U+0BE7", "U+0BE8", "U+0BE9", "U+0BEA",
          "U+0BEB", "U+0BEC", "U+0BED", "U+0BEE", "U+0BEF" >>,
       << "U+0C66", "U+0C67", "U+0C68", "U+0C69", "U+0C6A",
          "U+0C6B", "U+0C6C", "U+0C6D", "U+0C6E", "U+0C6F" >>,
       << "U+0CE6", "U+0CE7", "U+0CE8", "U+0CE9", "U+0CEA",
          "U+0CEB", "U+0CEC", "U+0CED", "U+0CEE", "U+0CEF" >>,
       << "U+0D66", "U+0D67", "U+0D68", "U+0D69", "U+0D6A",
          "U+0D6B", "U+0D6C", "U+0D6D", "U+0D6E", "U+0D6F" >>,
       << "U+0DE6", "U+0DE7", "U+0DE8", "U+0DE9", "U+0DEA",
          "U+0DEB", "U+0DEC", "U+0DED", "U+0DEE", "U+0DEF" >>,
       << "U+0E50", "U+0E51", "U+0E52", "U+0E53", "U+0E54",
          "U+0E55", "U+0E56", "U+0E57", "U+0E58", "U+0E59" >>,
       << "U+0ED0", "U+0ED1", "U+0ED2", "U+0ED3", "U+0ED4",
          "U+0ED5", "U+0ED6", "U+0ED7", "U+0ED8", "U+0ED9" >>,
       << "U+0F20", "U+0F21", "U+0F22", "U+0F23", "U+0F24",
          "U+0F25", "U+0F26", "U+0F27", "U+0F28", "U+0F29" >>,
       << "U+1040", "U+1041", "U+1042", "U+1043", "U+1044",
          "U+1045", "U+1046", "U+1047", "U+1048", "U+1049" >>,
       << "U+1090", "U+1091", "U+1092", "U+1093", "U+1094",
          "U+1095", "U+1096", "U+1097", "U+1098", "U+1099" >>,
       << "U+17E0", "U+17E1", "U+17E2", "U+17E3", "U+17E4",
          "U+17E5", "U+17E6", "U+17E7", "U+17E8", "U+17E9" >>,
       << "U+1810", "U+1811", "U+1812", "U+1813", "U+1814",
          "U+1815", "U+1816", "U+1817", "U+1818", "U+1819" >>,
       << "U+1946", "U+1947", "U+1948", "U+1949", "U+194A",
          "U+194B", "U+194C", "U+194D", "U+194E", "U+194F" >>,
       << "U+19D0", "U+19D1", "U+19D2", "U+19D3", "U+19D4",
          "U+19D5", "U+19D6", "U+19D7", "U+19D8", "U+19D9" >>,
       << "U+1A80", "U+1A81", "U+1A82", "U+1A83", "U+1A84",
          "U+1A85", "U+1A86", "U+1A87", "U+1A88", "U+1A89" >>,
       << "U+1A90", "U+1A91", "U+1A92", "U+1A93", "U+1A94",
          "U+1A95", "U+1A96", "U+1A97", "U+1A98", "U+1A99" >>,
       << "U+1B50", "U+1B51", "U+1B52", "U+1B53", "U+1B54",
          "U+1B55", "U+1B56", "U+1B57", "U+1B58", "U+1B59" >>,
       << "U+1BB0", "U+1BB1", "U+1BB2", "U+1BB3", "U+1BB4",
          "U+1BB5", "U+1BB6", "U+1BB7", "U+1BB8", "U+1BB9" >>,
       << "U+1C40", "U+1C41", "U+1C42", "U+1C43", "U+1C44",
          "U+1C45", "U+1C46", "U+1C47", "U+1C48", "U+1C49" >>,
       << "U+1C50", "U+1C51", "U+1C52", "U+1C53", "U+1C54",
          "U+1C55", "U+1C56", "U+1C57", "U+1C58", "U+1C59" >>,
       << "U+A620", "U+A621", "U+A622", "U+A623", "U+A624",
          "U+A625", "U+A626", "U+A627", "U+A628", "U+A629" >>,
       << "U+A8D0", "U+A8D1", "U+A8D2", "U+A8D3", "U+A8D4",
          "U+A8D5", "U+A8D6", "U+A8D7", "U+A8D8", "U+A8D9" >>,
       << "U+A900", "U+A901", "U+A902", "U+A903", "U+A904",
          "U+A905", "U+A906", "U+A907", "U+A908", "U+A909" >>,
       << "U+A9D0", "U+A9D1", "U+A9D2", "U+A9D3", "U+A9D4",
          "U+A9D5", "U+A9D6", "U+A9D7", "U+A9D8", "U+A9D9" >>,
       << "U+A9F0", "U+A9F1", "U+A9F2", "U+A9F3", "U+A9F4",
          "U+A9F5", "U+A9F6", "U+A9F7", "U+A9F8", "U+A9F9" >>,
       << "U+AA50", "U+AA51", "U+AA52", "U+AA53", "U+AA54",
          "U+AA55", "U+AA56", "U+AA57", "U+AA58", "U+AA59" >>,
       << "U+ABF0", "U+ABF1", "U+ABF2", "U+ABF3", "U+ABF4",
          "U+ABF5", "U+ABF6", "U+ABF7", "U+ABF8", "U+ABF9" >>,
       << "U+FF10", "U+FF11", "U+FF12", "U+FF13", "U+FF14",
          "U+FF15", "U+FF16", "U+FF17", "U+FF18", "U+FF19" >>,
       << "U+104A0", "U+104A1", "U+104A2", "U+104A3", "U+104A4",
          "U+104A5", "U+104A6", "U+104A7", "U+104A8", "U+104A9" >>,
       << "U+10D30", "U+10D31", "U+10D32", "U+10D33", "U+10D34",
          "U+10D35", "U+10D36", "U+10D37", "U+10D38", "U+10D39" >>,
       << "U+11066", "U+11067", "U+11068", "U+11069", "U+1106A",
          "U+1106B", "U+1106C", "U+1106D", "U+1106E", "U+1106F" >>,
       << "U+110F0", "U+110F1", "U+110F2", "U+110F3", "U+110F4",
          "U+110F5", "U+110F6", "U+110F7", "U+110F8", "U+110F9" >>,
       << "U+11136", "U+11137", "U+11138", "U+11139", "U+1113A",
          "U+1113B", "U+1113C", "U+1113D", "U+1113E", "U+1113F" >>,
       << "U+111D0", "U+111D1", "U+111D2", "U+111D3", "U+111D4",
          "U+111D5", "U+111D6", "U+111D7", "U+111D8", "U+111D9" >>,
       << "U+112F0", "U+112F1", "U+112F2", "U+112F3", "U+112F4",
          "U+112F5", "U+112F6", "U+112F7", "U+112F8", "U+112F9" >>,
       << "U+11450", "U+11451", "U+11452", "U+11453", "U+11454",
          "U+11455", "U+11456", "U+11457", "U+11458", "U+11459" >>,
       << "U+114D0", "U+114D1", "U+114D2", "U+114D3", "U+114D4",
          "U+114D5", "U+114D6", "U+114D7", "U+114D8", "U+114D9" >>,
       << "U+11650", "U+11651", "U+11652", "U+11653", "U+11654",
          "U+11655", "U+11656", "U+11657", "U+11658", "U+11659" >>,
       << "U+116C0", "U+116C1", "U+116C2", "U+116C3", "U+116C4",
          "U+116C5", "U+116C6", "U+116C7", "U+116C8", "U+116C9" >>,
       << "U+11730", "U+11731", "U+11732", "U+11733", "U+11734",
          "U+11735", "U+11736", "U+11737", "U+11738", "U+11739" >>,
       << "U+118E0", "U+118E1", "U+118E2", "U+118E3", "U+118E4",
          "U+118E5", "U+118E6", "U+118E7", "U+118E8", "U+118E9" >>,
       << "U+11950", "U+11951", "U+11952", "U+11953", "U+11954",
          "U+11955", "U+11956", "U+11957", "U+11958", "U+11959" >>,
       << "U+11C50", "U+11C51", "U+11C52", "U+11C53", "U+11C54",
          "U+11C55", "U+11C56", "U+11C57", "U+11C58", "U+11C59" >>,
       << "U+11D50", "U+11D51", "U+11D52", "U+11D53", "U+11D54",
          "U+11D55", "U+11D56", "U+11D57", "U+11D58", "U+11D59" >>,
       << "U+11DA0", "U+11DA1", "U+11DA2", "U+11DA3", "U+11DA4",
          "U+11DA5", "U+11DA6", "U+11DA7", "U+11DA8", "U+11DA9" >>,
       << "U+16A60", "U+16A61", "U+16A62", "U+16A63", "U+16A64",
          "U+16A65", "U+16A66", "U+16A67", "U+16A68", "U+16A69" >>,
       << "U+16AC0", "U+16AC1", "U+16AC2", "U+16AC3", "U+16AC4",
          "U+16AC5", "U+16AC6", "U+16AC7", "U+16AC8", "U+16AC9" >>,
       << "U+16B50", "U+16B51", "U+16B52", "U+16B53", "U+16B54",
          "U+16B55", "U+16B56", "U+16B57", "U+16B58", "U+16B59" >>,
       << "U+1D7CE", "U+1D7CF", "U+1D7D0", "U+1D7D1", "U+1D7D2",
          "U+1D7D3", "U+1D7D4", "U+1D7D5", "U+1D7D6", "U+1D7D7" >>,
       << "U+1D7D8", "U+1D7D9", "U+1D7DA", "U+1D7DB", "U+1D7DC",
          "U+1D7DD", "U+1D7DE", "U+1D7DF", "U+1D7E0", "U+1D7E1" >>,
       << "U+1D7E2", "U+1D7E3", "U+1D7E4", "U+1D7E5", "U+1D7E6",
          "U+1D7E7", "U+1D7E8", "U+1D7E9", "U+1D7EA", "U+1D7EB" >>,
       << "U+1D7EC", "U+1D7ED", "U+1D7EE", "U+1D7EF", "U+1D7F0",
          "U+1D7F1", "U+1D7F2", "U+1D7F3", "U+1D7F4", "U+1D7F5" >>,
       << "U+1D7F6", "U+1D7F7", "U+1D7F8", "U+1D7F9", "U+1D7FA",
          "U+1D7FB", "U+1D7FC", "U+1D7FD", "U+1D7FE", "U+1D7FF" >>,
       << "U+1E140", "U+1E141", "U+1E142", "U+1E143", "U+1E144",
          "U+1E145", "U+1E146", "U+1E147", "U+1E148", "U+1E149" >>,
       << "U+1E2F0", "U+1E2F1", "U+1E2F2", "U+1E2F3", "U+1E2F4",
          "U+1E2F5", "U+1E2F6", "U+1E2F7", "U+1E2F8", "U+1E2F9" >>,
       << "U+1E950", "U+1E951", "U+1E952", "U+1E953", "U+1E954",
          "U+1E955", "U+1E956", "U+1E957", "U+1E958", "U+1E959" >>,
       << "U+1FBF0", "U+1FBF1", "U+1FBF2", "U+1FBF3", "U+1FBF4",
          "U+1FBF5", "U+1FBF6", "U+1FBF7", "U+1FBF8", "U+1FBF9" >> >>

\* the characters int(), float() and \d take for a digit
DecimalDigit ==
    UNION {{DecimalBlocks[b][n] : n \in 1..10} : b \in 1..Len(DecimalBlocks)}

\* the characters str.isdigit takes besides the decimal digits: superscripts,
\* subscripts, circled and parenthesized digits and the like
OtherDigit ==
    {"U+00B2", "U+00B3", "U+00B9", "U+1369", "U+136A", "U+136B", "U+136C",
     "U+136D", "U+136E", "U+136F", "U+1370", "U+1371", "U+19DA", "U+2070",
     "U+2074", "U+2075", "U+2076", "U+2077", "U+2078", "U+2079", "U+2080",
     "U+2081", "U+2082", "U+2083", "U+2084", "U+2085", "U+2086", "U+2087",
     "U+2088", "U+2089", "U+2460", "U+2461", "U+2462", "U+2463", "U+2464",
     "U+2465", "U+2466", "U+2467", "U+2468", "U+2474", "U+2475", "U+2476",
     "U+2477", "U+2478", "U+2479", "U+247A", "U+247B", "U+247C", "U+2488",
     "U+2489", "U+248A", "U+248B", "U+248C", "U+248D", "U+248E", "U+248F",
     "U+2490", "U+24EA", "U+24F5", "U+24F6", "U+24F7", "U+24F8", "U+24F9",
     "U+24FA", "U+24FB", "U+24FC", "U+24FD", "U+24FF", "U+2776", "U+2777",
     "U+2778", "U+2779", "U+277A", "U+277B", "U+277C", "U+277D", "U+277E",
     "U+2780", "U+2781", "U+2782", "U+2783", "U+2784", "U+2785", "U+2786",
     "U+2787", "U+2788", "U+278A", "U+278B", "U+278C", "U+278D", "U+278E",
     "U+278F", "U+2790", "U+2791", "U+2792", "U+10A40", "U+10A41", "U+10A42",
     "U+10A43", "U+10E60", "U+10E61", "U+10E62", "U+10E63", "U+10E64",
     "U+10E65", "U+10E66", "U+10E67", "U+10E68", "U+11052", "U+11053",
     "U+11054", "U+11055", "U+11056", "U+11057", "U+11058", "U+11059",
     "U+1105A", "U+1F100", "U+1F101", "U+1F102", "U+1F103", "U+1F104",
     "U+1F105", "U+1F106", "U+1F107", "U+1F108", "U+1F109", "U+1F10A"}

\* c.isdigit()
Digit == DecimalDigit \cup OtherDigit

\* c.isspace(): what str.strip(), str.split() and \s take for whitespace
Whitespace ==
    {"\t", "\n", "U+000B", "\f", "\r", "U+001C", "U+001D", "U+001E",
     "U+001F", " ", "U+0085", "U+00A0", "U+1680", "U+2000", "U+2001",
     "U+2002", "U+2003", "U+2004", "U+2005", "U+2006", "U+2007", "U+2008",
     "U+2009", "U+200A", "U+2028", "U+2029", "U+202F", "U+205F", "U+3000"}

\* the whitespace int() and float() strip from the ends of their argument
NumWhitespace == Whitespace \ {"U+001C", "U+001D", "U+001E", "U+001F"}

UpperChars == << "A","B","C","D","E","F","G","H","I","J","K","L","M",
                 "N","O","P","Q","R","S","T","U","V","W","X","Y","Z" >>

LowerChars == << "a","b","c","d","e","f","g","h","i","j","k","l","m",
                 "n","o","p","q","r","s","t","u","v","w","x","y","z" >>

MinOf(S) == CHOOSE x \in S : \A y \in S : x <= y

MaxOf(S) == 0 - MinOf({0 - x : x \in S})

NonEmpty(s) == s # << >>

\* s.strip(chars)
StripSet(s, cs) ==
    LET keep == {n \in 1..Len(s) : s[n] \notin cs}
    IN  IF keep = {} THEN << >> ELSE SubSeq(s, MinOf(keep), MaxOf(keep))

\* s.strip()
Strip(s) == StripSet(s, Whitespace)

\* s.split(c) for a separator drawn from cs: empty pieces are kept
RECURSIVE SplitOn(_, _)
SplitOn(s, cs) ==
    LET hits == {n \in 1..Len(s) : s[n] \in cs}
    IN  IF hits = {} THEN << s >>
        ELSE << SubSeq(s, 1, MinOf(hits) - 1) >>
                 \o SplitOn(SubSeq(s, MinOf(hits) + 1, Len(s)), cs)

\* s.split(): runs of whitespace separate, no empty piece
SplitWs(s) == SelectSeq(SplitOn(s, Whitespace), NonEmpty)

\* sub in s
Contains(sub, s) ==
    \E n \in 1..(Len(s) - Len(sub) + 1) : SubSeq(s, n, n + Len(sub) - 1) = sub

\* s.startswith(sub)
StartsWith(s, sub) == Len(s) >= Len(sub) /\ SubSeq(s, 1, Len(sub)) = sub

\* " ".join(toks)
RECURSIVE JoinSp(_)
JoinSp(toks) ==
    IF toks = << >> THEN << >>
    ELSE IF Len(toks) = 1 THEN toks[1]
    ELSE toks[1] \o << " " >> \o JoinSp(Tail(toks))

\* [f.strip() for f in line.split("|") if f.strip()]
Fields(line) ==
    LET parts == SplitOn(line, {"|"})
    IN  SelectSeq([n \in 1..Len(parts) |-> Strip(parts[n])], NonEmpty)

\* the ASCII lower case of c, as the comparison of float() with "inf" and "nan"
Lower(c) ==
    IF \E n \in 1..Len(UpperChars) : UpperChars[n] = c
    THEN LowerChars[CHOOSE n \in 1..Len(UpperChars) : UpperChars[n] = c]
    ELSE c

LowerStr(s) == [n \in 1..Len(s) |-> Lower(s[n])]

(***************************************************************************)
(* int() and float() of a token.  Both strip whitespace from the ends and  *)
(* accept an optional sign and decimal digits of any script with single    *)
(* underscores between them; float also accepts one point, an exponent     *)
(* ("e" or "E", an optional sign, digits) and, in any case of the letters, *)
(* "inf", "infinity" and "nan".  An int of Python has no bound: it is kept *)
(* as its decimal numeral, the digits 0-9 without leading zeros and "-"    *)
(* before a negative one, which is the text str() returns of it.  A float *)
(* is the double nearest to the decimal written: a finite one is kept as   *)
(* that decimal, m * 10^(-e) with m an int not divisible by ten, of any    *)
(* number of digits; a decimal of 2^1024 - 2^970 or more (the largest      *)
(* double and half a step) is the infinity and one of 2^-1075 or less      *)
(* (half the smallest double) is zero, as float() rounds them.  A zero     *)
(* keeps its sign: the negative zero is written "-0".  int() refuses a     *)
(* numeral of more than sys.get_int_max_str_digits() digits with a         *)
(* ValueError; float() has no such limit.                                  *)
(***************************************************************************)
\* sys.get_int_max_str_digits() of CPython 3.11
MaxStrDigits == 4300

Unsigned(t) == IF t # << >> /\ t[1] \in {"+", "-"} THEN Tail(t) ELSE t

Negative(t) == t # << >> /\ t[1] = "-"

\* s.strip() as int() and float() do it
NumStrip(t) == StripSet(t, NumWhitespace)

DigitRun(s) ==
    /\ s # << >>
    /\ \A n \in 1..Len(s) : s[n] \in DecimalDigit \/ s[n] = "_"
    /\ s[1] \in DecimalDigit
    /\ s[Len(s)] \in DecimalDigit
    /\ \A n \in 1..(Len(s) - 1) : ~(s[n] = "_" /\ s[n + 1] = "_")

\* the value of the decimal digit c: its place in its script
DigitVal(c) ==
    IF \E n \in 1..10 : DigitChars[n] = c
    THEN (CHOOSE n \in 1..10 : DigitChars[n] = c) - 1
    ELSE (CHOOSE n \in 1..10 :
             \E b \in 1..Len(DecimalBlocks) : DecimalBlocks[b][n] = c) - 1

\* the number of digits of s, which int() holds against its limit
DigitCount(s) == Cardinality({n \in 1..Len(s) : s[n] \in DecimalDigit})

\* the digits of every script that stand for zero
ZeroDigit == {DecimalBlocks[b][1] : b \in 1..Len(DecimalBlocks)}

\* s from its first digit other than zero on
Significant(s) ==
    LET nz == {n \in 1..Len(s) : s[n] \notin ZeroDigit /\ s[n] # "_"}
    IN  IF nz = {} THEN << >> ELSE SubSeq(s, MinOf(nz), Len(s))

RECURSIVE DigitsVal(_)
DigitsVal(s) ==
    IF s = << >> THEN 0
    ELSE LET rest == SubSeq(s, 1, Len(s) - 1)
         IN  IF s[Len(s)] = "_" THEN DigitsVal(rest)
             ELSE DigitsVal(rest) * 10 + DigitVal(s[Len(s)])

\* the number the digits of s (underscores apart) write in base ten
NatVal(s) == DigitsVal(Significant(s))

\* int(t) returns
IntOk(t) ==
    LET r == Unsigned(NumStrip(t))
    IN  DigitRun(r) /\ DigitCount(r) <= MaxStrDigits

\* the int 0
ZERO == << "0" >>

\* the digits of the digit run s in the digits 0-9, its underscores dropped
AsciiDigits(s) ==
    LET ds == SelectSeq(s, LAMBDA c : c # "_")
    IN  [n \in 1..Len(ds) |-> DigitChars[DigitVal(ds[n]) + 1]]

\* the value int(t) returns
IntVal(t) ==
    LET s   == NumStrip(t)
        mag == AsciiDigits(Significant(Unsigned(s)))
    IN  IF mag = << >> THEN ZERO
        ELSE IF Negative(s) THEN << "-" >> \o mag
        ELSE mag

\* The number the signed digit run t writes, the exponent of a float.  An
\* exponent of ten digits or more is beyond every double, whatever the
\* mantissa of a text of less than 10^9 characters, and is kept as 10^9.
ExpVal(t) ==
    LET d == Significant(Unsigned(t))
        n == IF DigitCount(d) > 9 THEN 1000000000 ELSE NatVal(d)
    IN  IF Negative(t) THEN 0 - n ELSE n

INF      == << "i","n","f" >>
INFINITY == << "i","n","f","i","n","i","t","y" >>
NAN      == << "n","a","n" >>

\* r is one of the special values of float()
FloatSpecial(r) == LowerStr(r) \in {INF, INFINITY, NAN}

\* the places of r that hold an exponent marker
ExpMarks(r) == {n \in 1..Len(r) : r[n] \in {"e", "E"}}

HasExponent(r) == ExpMarks(r) # {}

\* r up to its exponent marker
Mantissa(r) == IF HasExponent(r) THEN SubSeq(r, 1, MinOf(ExpMarks(r)) - 1) ELSE r

\* r behind its exponent marker
Exponent(r) == SubSeq(r, MinOf(ExpMarks(r)) + 1, Len(r))

\* digits, with one optional point, some digit on either side of it
MantissaOk(mt) ==
    LET parts == SplitOn(mt, {"."})
    IN  /\ Len(parts) <= 2
        /\ \A n \in 1..Len(parts) : parts[n] = << >> \/ DigitRun(parts[n])
        /\ \E n \in 1..Len(parts) : parts[n] # << >>

\* float(t) returns
FloatOk(t) ==
    LET r == Unsigned(NumStrip(t))
    IN  \/ FloatSpecial(r)
        \/ /\ MantissaOk(Mantissa(r))
           /\ HasExponent(r) => DigitRun(Unsigned(Exponent(r)))

Finite(m, e) == [kind |-> "finite", m |-> m, e |-> e]

\* 2^1024 - 2^970
FLOAT_LIMIT ==
    << "1","7","9","7","6","9","3","1","3","4","8","6","2","3","1",
       "5","8","0","7","9","3","7","2","8","9","7","1","4","0","5",
       "3","0","3","4","1","5","0","7","9","9","3","4","1","3","2",
       "7","1","0","0","3","7","8","2","6","9","3","6","1","7","3",
       "7","7","8","9","8","0","4","4","4","9","6","8","2","9","2",
       "7","6","4","7","5","0","9","4","6","6","4","9","0","1","7",
       "9","7","7","5","8","7","2","0","7","0","9","6","3","3","0",
       "2","8","6","4","1","6","6","9","2","8","8","7","9","1","0",
       "9","4","6","5","5","5","5","4","7","8","5","1","9","4","0",
       "4","0","2","6","3","0","6","5","7","4","8","8","6","7","1",
       "5","0","5","8","2","0","6","8","1","9","0","8","9","0","2",
       "0","0","0","7","0","8","3","8","3","6","7","6","2","7","3",
       "8","5","4","8","4","5","8","1","7","7","1","1","5","3","1",
       "7","6","4","4","7","5","7","3","0","2","7","0","0","6","9",
       "8","5","5","5","7","1","3","6","6","9","5","9","6","2","2",
       "8","4","2","9","1","4","8","1","9","8","6","0","8","3","4",
       "9","3","6","4","7","5","2","9","2","7","1","9","0","7","4",
       "1","6","8","4","4","4","3","6","5","5","1","0","7","0","4",
       "3","4","2","7","1","1","5","5","9","6","9","9","5","0","8",
       "0","9","3","0","4","2","8","8","0","1","7","7","9","0","4",
       "1","7","4","4","9","7","7","9","2" >>

\* 5^1075: 2^-1075 is 5^1075 * 10^(-1075)
HALF_MIN ==
    << "2","4","7","0","3","2","8","2","2","9","2","0","6","2","3",
       "2","7","2","0","8","8","2","8","4","3","9","6","4","3","4",
       "1","1","0","6","8","6","1","8","2","5","2","9","9","0","1",
       "3","0","7","1","6","2","3","8","2","2","1","2","7","9","2",
       "8","4","1","2","5","0","3","3","7","7","5","3","6","3","5",
       "1","0","4","3","7","5","9","3","2","6","4","9","9","1","8",
       "1","8","0","8","1","7","9","9","6","1","8","9","8","9","8",
       "2","8","2","3","4","7","7","2","2","8","5","8","8","6","5",
       "4","6","3","3","2","8","3","5","5","1","7","7","9","6","9",
       "8","9","8","1","9","9","3","8","7","3","9","8","0","0","5",
       "3","9","0","9","3","9","0","6","3","1","5","0","3","5","6",
       "5","9","5","1","5","5","7","0","2","2","6","3","9","2","2",
       "9","0","8","5","8","3","9","2","4","4","9","1","0","5","1",
       "8","4","4","3","5","9","3","1","8","0","2","8","4","9","9",
       "3","6","5","3","6","1","5","2","5","0","0","3","1","9","3",
       "7","0","4","5","7","6","7","8","2","4","9","2","1","9","3",
       "6","5","6","2","3","6","6","9","8","6","3","6","5","8","4",
       "8","0","7","5","7","0","0","1","5","8","5","7","6","9","2",
       "6","9","9","0","3","7","0","6","3","1","1","9","2","8","2",
       "7","9","5","5","8","5","5","1","3","3","2","9","2","7","8",
       "3","4","3","3","8","4","0","9","3","5","1","9","7","8","0",
       "1","5","5","3","1","2","4","6","5","9","7","2","6","3","5",
       "7","9","5","7","4","6","2","2","7","6","6","4","6","5","2",
       "7","2","8","2","7","2","2","0","0","5","6","3","7","4","0",
       "0","6","4","8","5","4","9","9","9","7","7","0","9","6","5",
       "9","9","4","7","0","4","5","4","0","2","0","8","2","8","1",
       "6","6","2","2","6","2","3","7","8","5","7","3","9","3","4",
       "5","0","7","3","6","3","3","9","0","0","7","9","6","7","7",
       "6","1","9","3","0","5","7","7","5","0","6","7","4","0","1",
       "7","6","3","2","4","6","7","3","6","0","0","9","6","8","9",
       "5","1","3","4","0","5","3","5","5","3","7","4","5","8","5",
       "1","6","6","6","1","1","3","4","2","2","3","7","6","6","6",
       "7","8","6","0","4","1","6","2","1","5","9","6","8","0","4",
       "6","1","9","1","4","4","6","7","2","9","1","8","4","0","3",
       "0","0","5","3","0","0","5","7","5","3","0","8","4","9","0",
       "4","8","7","6","5","3","9","1","7","1","1","3","8","6","5",
       "9","1","6","4","6","2","3","9","5","2","4","9","1","2","6",
       "2","3","6","5","3","8","8","1","8","7","9","6","3","6","2",
       "3","9","3","7","3","2","8","0","4","2","3","8","9","1","0",
       "1","8","6","7","2","3","4","8","4","9","7","6","6","8","2",
       "3","5","0","8","9","8","6","3","3","8","8","5","8","7","9",
       "2","5","6","2","8","3","0","2","7","5","5","9","9","5","6",
       "5","7","5","2","4","4","5","5","5","0","7","2","5","5","1",
       "8","9","3","1","3","6","9","0","8","3","6","2","5","4","7",
       "7","9","1","8","6","9","4","8","6","6","7","9","9","4","9",
       "6","8","3","2","4","0","4","9","7","0","5","8","2","1","0",
       "2","8","5","1","3","1","8","5","4","5","1","3","9","6","2",
       "1","3","8","3","7","7","2","2","8","2","6","1","4","5","4",
       "3","7","6","9","3","4","1","2","5","3","2","0","9","8","5",
       "9","1","3","2","7","6","6","7","2","3","6","3","2","8","1",
       "2","5" >>

\* 0.a >= 0.b, for the digit runs a and b read behind the point
FracAtLeast(a, b) ==
    LET dig(x, n) == IF n <= Len(x) THEN DigitVal(x[n]) ELSE 0
        len  == IF Len(a) > Len(b) THEN Len(a) ELSE Len(b)
        diff == {n \in 1..len : dig(a, n) # dig(b, n)}
    IN  diff = {} \/ dig(a, MinOf(diff)) > dig(b, MinOf(diff))

\* The double nearest to the decimal m * 10^(-e), for the digits m of an int
\* that is neither zero nor divisible by ten: the infinity from FLOAT_LIMIT
\* on, zero up to 2^-1075 (the tie goes to the even one of zero and the
\* smallest double).
Rounded(m, e) ==
    LET adj == Len(m) - 1 - e
    IN  IF adj > 308 \/ (adj = 308 /\ FracAtLeast(m, FLOAT_LIMIT))
        THEN [kind |-> "inf", m |-> << "1" >>, e |-> 0]
        ELSE IF adj < 0 - 324 \/ (adj = 0 - 324 /\ FracAtLeast(HALF_MIN, m))
        THEN Finite(ZERO, 0)
        ELSE Finite(m, e)

\* the element of a set of one: in Only({F(x) : x \in {v}}) the value v is
\* computed once
Only(S) == CHOOSE y \in S : TRUE

\* the double nearest to digits * 10^(-e): the zeros at the end of the digits
\* go into the exponent
Trimmed(digits, e) ==
    IF digits = << >> THEN Finite(ZERO, 0)
    ELSE Only({Rounded(SubSeq(digits, 1, last), e - (Len(digits) - last)) :
               last \in {MaxOf({n \in 1..Len(digits) : digits[n] # "0"})}})

\* the double the unsigned numeral r writes: the digits before the point and
\* those behind it if there is one, times ten to the exponent
Magnitude(r) ==
    Only({Only({Only({Trimmed(digits,
                              Len(frac) - (IF HasExponent(r) THEN ExpVal(Exponent(r))
                                           ELSE 0)) :
                      digits \in {AsciiDigits(Significant(parts[1] \o frac))}}) :
                frac \in {IF Len(parts) = 2
                          THEN SelectSeq(parts[2], LAMBDA c : c # "_")
                          ELSE << >>}}) :
          parts \in {SplitOn(Mantissa(r), {"."})}})

\* the value float(t) returns: [kind |-> "finite", m, e] is m * 10^(-e),
\* [kind |-> "inf", m] is the infinity of the sign of m, [kind |-> "nan"] is no
\* number
FloatVal(t) ==
    Only({LET r    == Unsigned(s)
              sign == IF Negative(s) THEN << "-" >> ELSE << >>
          IN  IF LowerStr(r) = NAN THEN [kind |-> "nan", m |-> ZERO, e |-> 0]
              ELSE IF FloatSpecial(r)
              THEN [kind |-> "inf", m |-> sign \o << "1" >>, e |-> 0]
              ELSE Only({[kind |-> v.kind, m |-> sign \o v.m, e |-> v.e] :
                         v \in {Magnitude(r)}}) :
          s \in {NumStrip(t)}})

(***************************************************************************)
(* parse_device_section                                                    *)
(***************************************************************************)
PROCESS_ID == << "P","r","o","c","e","s","s"," ","i","d" >>

\* output.split("Process id")[0].splitlines()
DeviceSectionLines(out) ==
    LET hit == {n \in 1..Len(out) : Contains(PROCESS_ID, out[n])}
    IN  IF hit = {} THEN out
        ELSE LET p   == MinOf(hit)
                 at  == MinOf({n \in 1..(Len(out[p]) - Len(PROCESS_ID) + 1) :
                                 SubSeq(out[p], n, n + Len(PROCESS_ID) - 1) = PROCESS_ID})
                 cut == SubSeq(out[p], 1, at - 1)
             IN  SubSeq(out, 1, p - 1) \o (IF cut = << >> THEN << >> ELSE << cut >>)

\* the test of the collecting loop
IsCandidate(line) ==
    /\ StartsWith(line, << "|" >>)
    /\ LET content == Strip(StripSet(Strip(line), {"|"}))
       IN  content # << >> /\ content[1] \in Digit

DataLines(lines) == SelectSeq(lines, IsCandidate)

\* SplitGlued without the recovery: the raw tokens
SplitGlued_None(toks) == toks

\* the glued-token recovery of tokens_line2
RECURSIVE SplitGlued(_)
SplitGlued(toks) ==
    IF toks = << >> THEN << >>
    ELSE LET t == toks[1]
         IN  (IF t[Len(t)] = "/" /\ Len(t) > 1
              THEN << SubSeq(t, 1, Len(t) - 1), << "/" >> >>
              ELSE << t >>) \o SplitGlued(Tail(toks))

\* The body of the pair loop for (line1, line2).  err is the exception that
\* leaves the function ("none" when the record is built), fault tells whether
\* console.print_exception was called on the way.
BuildDevice(line1, line2) ==
    LET fields1      == Fields(line1)
        tokens0      == SplitWs(fields1[1])
        tokens_power == SplitWs(fields1[3])
        errA == IF Len(fields1) < 1 THEN "IndexError"
                ELSE IF ~IntOk(tokens0[1]) THEN "ValueError"
                ELSE IF Len(fields1) < 3 THEN "IndexError"
                ELSE IF tokens_power # << >> /\ ~FloatOk(tokens_power[1]) THEN "ValueError"
                ELSE IF Len(tokens_power) > 1 /\ ~IntOk(tokens_power[2]) THEN "ValueError"
                ELSE "none"
        hugeTry   == Len(tokens_power) >= 5
        hugeOk1   == hugeTry /\ IntOk(tokens_power[3])
        hugeOk2   == hugeOk1 /\ IntOk(tokens_power[5])
        fields2   == Fields(line2)
        errB      == IF Len(fields2) < 3 THEN "IndexError" ELSE "none"
        tokens_line2 == SplitGlued(SplitWs(fields2[3]))
        l2Try     == Len(tokens_line2) >= 7
        ok1       == l2Try /\ IntOk(tokens_line2[1])
        ok2       == ok1 /\ IntOk(tokens_line2[2])
        ok3       == ok2 /\ IntOk(tokens_line2[4])
        ok4       == ok3 /\ IntOk(tokens_line2[5])
        ok5       == ok4 /\ IntOk(tokens_line2[7])
    IN  IF errA # "none" THEN [err |-> errA, fault |-> FALSE]
        ELSE IF errB # "none" THEN [err |-> errB, fault |-> hugeTry /\ ~hugeOk2]
        ELSE [err    |-> "none",
              fault  |-> (hugeTry /\ ~hugeOk2) \/ (l2Try /\ ~ok5),
              device |->
                [id              |-> IntVal(tokens0[1]),
                 name            |-> IF Len(tokens0) > 1 THEN JoinSp(Tail(tokens0))
                                     ELSE << >>,
                 health          |-> fields1[2],
                 power           |-> IF tokens_power # << >>
                                     THEN FloatVal(tokens_power[1])
                                     ELSE Finite(ZERO, 0),
                 temp            |-> IF Len(tokens_power) > 1
                                     THEN IntVal(tokens_power[2]) ELSE ZERO,
                 hugepages_used  |-> IF hugeOk1 THEN IntVal(tokens_power[3]) ELSE ZERO,
                 hugepages_total |-> IF hugeOk2 THEN IntVal(tokens_power[5]) ELSE ZERO,
                 chip            |-> fields2[1],
                 bus_id          |-> fields2[2],
                 ai_core         |-> IF ok1 THEN IntVal(tokens_line2[1]) ELSE ZERO,
                 mem_used        |-> IF ok2 THEN IntVal(tokens_line2[2]) ELSE ZERO,
                 mem_total       |-> IF ok3 THEN IntVal(tokens_line2[4]) ELSE ZERO,
                 hbm_used        |-> IF ok4 THEN IntVal(tokens_line2[5]) ELSE ZERO,
                 hbm_total       |-> IF ok5 THEN IntVal(tokens_line2[7]) ELSE ZERO]]

\* PairStep with the loop index advanced by one line in place of two
PairStep_StepOne(dl, st) ==
    LET b == BuildDevice(dl[st.i + 1], dl[st.i + 2])
    IN  [i       |-> st.i + 1,
         devices |-> IF b.err = "none" THEN Append(st.devices, b.device)
                     ELSE st.devices,
         fault   |-> st.fault \/ b.fault,
         err     |-> b.err]

\* One iteration of the pair loop on the loop state st = [i, devices, fault]:
\* the state behind it, with the exception that leaves the function, if any.
PairStep(dl, st) ==
    LET b == BuildDevice(dl[st.i + 1], dl[st.i + 2])
    IN  [i       |-> st.i + 2,
         devices |-> IF b.err = "none" THEN Append(st.devices, b.device)
                     ELSE st.devices,
         fault   |-> st.fault \/ b.fault,
         err     |-> b.err]

\* the pair loop goes on: range(0, len, 2) is not exhausted and no break
PairMore(dl, n) == n < Len(dl) /\ ~(n + 1 >= Len(dl))

(***************************************************************************)
(* parse_process_section                                                   *)
(***************************************************************************)
PROCESS_MEMORY ==
    << "P","r","o","c","e","s","s"," ","m","e","m","o","r","y","(","M","B",")" >>

NO_RUNNING ==
    << "N","o"," ","r","u","n","n","i","n","g"," ","p","r","o","c","e","s","s","e","s",
       " ","f","o","u","n","d"," ","i","n"," ","N","P","U" >>

EmptyMap == [d \in {} |-> << >>]

\* IsHeader with "or" in place of "and"
IsHeader_Either(line) == Contains(PROCESS_ID, line) \/ Contains(PROCESS_MEMORY, line)

IsHeader(line) == Contains(PROCESS_ID, line) /\ Contains(PROCESS_MEMORY, line)

\* set(line.strip()) <= set("+-=")
IsBorder(line) == \A n \in 1..Len(Strip(line)) : Strip(line)[n] \in {"+", "-", "="}

\* One iteration of the scanning loop on st = [in_process_section, process_lines].
ScanLine(st, line) ==
    IF IsHeader(line)
    THEN [in_process_section |-> TRUE, process_lines |-> st.process_lines]
    ELSE IF st.in_process_section /\ StartsWith(line, << "|" >>) /\ ~IsBorder(line)
    THEN [in_process_section |-> TRUE,
          process_lines      |-> Append(st.process_lines, line)]
    ELSE st

\* re.search(r'No running processes found in NPU\s+(\d+)', content): the set
\* holding match.group(1), empty when there is no match
SentinelMatch(content) ==
    LET n0    == Len(NO_RUNNING)
        after(p) == p + n0       \* first position behind the phrase found at p
        digitAt(p) ==            \* where \d+ starts for the phrase found at p
            MinOf({q \in after(p)..(Len(content) + 1) :
                      q > Len(content) \/ content[q] \notin Whitespace})
        found == {p \in 1..(Len(content) - n0 + 1) :
                    /\ SubSeq(content, p, p + n0 - 1) = NO_RUNNING
                    /\ digitAt(p) > after(p)
                    /\ digitAt(p) <= Len(content)
                    /\ content[digitAt(p)] \in DecimalDigit}
    IN  IF found = {} THEN {}
        ELSE LET d0 == digitAt(MinOf(found))
                 d1 == MinOf({q \in d0..(Len(content) + 1) :
                                q > Len(content) \/ content[q] \notin DecimalDigit}) - 1
             IN  {SubSeq(content, d0, d1)}

\* Register with setdefault in place of the assignment: a list already there stays
Register_Keep(map, npu_id) ==
    [d \in DOMAIN map \cup {npu_id} |-> IF d \in DOMAIN map THEN map[d] ELSE << >>]

\* processes_by_npu[npu_id] = []
Register(map, npu_id) ==
    [d \in DOMAIN map \cup {npu_id} |-> IF d = npu_id THEN << >> ELSE map[d]]

\* AppendProc with insert(0, rec) in place of append(rec)
AppendProc_Front(map, npu_id, rec) ==
    [d \in DOMAIN map \cup {npu_id} |->
        IF d = npu_id
        THEN << rec >> \o (IF npu_id \in DOMAIN map THEN map[npu_id] ELSE << >>)
        ELSE map[d]]

\* processes_by_npu.setdefault(npu_id, []).append(rec)
AppendProc(map, npu_id, rec) ==
    [d \in DOMAIN map \cup {npu_id} |->
        IF d = npu_id
        THEN Append(IF npu_id \in DOMAIN map THEN map[npu_id] ELSE << >>, rec)
        ELSE map[d]]

\* the sentinel branch of the building loop: int(match.group(1)) stands
\* outside any try
BuildSentinel(map, content) ==
    LET groups == SentinelMatch(content)
        group  == CHOOSE g \in groups : TRUE
    IN  IF groups = {} THEN [err |-> "none", map |-> map]
        ELSE IF ~IntOk(group) THEN [err |-> "ValueError", map |-> map]
        ELSE [err |-> "none", map |-> Register(map, IntVal(group))]

\* BuildLine with "continue" in place of "mem = 0" when int(fields[3]) fails
BuildLine_MemDrops(map, line) ==
    LET content == Strip(StripSet(Strip(line), {"|"}))
        fields  == Fields(line)
        tokens  == SplitWs(fields[1])
    IN  IF StartsWith(content, NO_RUNNING) THEN BuildSentinel(map, content)
        ELSE IF Len(fields) < 4 THEN [err |-> "none", map |-> map]
        ELSE IF ~IntOk(tokens[1]) THEN [err |-> "none", map |-> map]
        ELSE IF ~IntOk(fields[4]) THEN [err |-> "none", map |-> map]
        ELSE [err |-> "none",
              map |-> AppendProc(map, IntVal(tokens[1]),
                                 [pid  |-> fields[2],
                                  name |-> fields[3],
                                  mem  |-> IntVal(fields[4])])]

\* One iteration of the building loop: the map after `line`, with the
\* exception that leaves the function, if any.
BuildLine(map, line) ==
    LET content == Strip(StripSet(Strip(line), {"|"}))
        fields  == Fields(line)
        tokens  == SplitWs(fields[1])
    IN  IF StartsWith(content, NO_RUNNING) THEN BuildSentinel(map, content)
        ELSE IF Len(fields) < 4 THEN [err |-> "none", map |-> map]
        ELSE IF ~IntOk(tokens[1]) THEN [err |-> "none", map |-> map]
        ELSE [err |-> "none",
              map |-> AppendProc(map, IntVal(tokens[1]),
                                 [pid  |-> fields[2],
                                  name |-> fields[3],
                                  mem  |-> IF IntOk(fields[4]) THEN IntVal(fields[4])
                                           ELSE ZERO])]

(***************************************************************************)
(* The arithmetic of main on the parsed ints.  The true division of two    *)
(* ints returns the float nearest to the quotient, and raises              *)
(* OverflowError when the quotient is beyond the largest double: from      *)
(* 2^1024 - 2^970 on (the largest double and half a step).                 *)
(***************************************************************************)
\* v > 0
Positive(v) == v # ZERO /\ v[1] # "-"

\* v * 100
Times100(v) == IF v = ZERO THEN ZERO ELSE v \o << "0","0" >>

\* the digits of the numeral v as numbers, the units first
Units(v) == [n \in 1..Len(v) |-> DigitVal(v[Len(v) + 1 - n])]

\* f[lo] + ... + f[hi]
RECURSIVE SumOf(_, _, _)
SumOf(f, lo, hi) ==
    IF lo > hi THEN 0
    ELSE IF lo = hi THEN f[lo]
    ELSE LET mid == (lo + hi) \div 2
         IN  SumOf(f, lo, mid) + SumOf(f, mid + 1, hi)

\* the columns of the long multiplication of a by b, before the carries
Columns(a, b) ==
    [p \in 1..(Len(a) + Len(b) - 1) |->
        LET lo == IF p > Len(b) THEN p + 1 - Len(b) ELSE 1
            hi == IF p < Len(a) THEN p ELSE Len(a)
        IN  SumOf([n \in lo..hi |-> a[n] * b[p + 1 - n]], lo, hi)]

\* the columns lo..hi with the carry c into column lo: their digits, and the
\* carry out of column hi
RECURSIVE Carried(_, _, _, _)
Carried(cols, lo, hi, c) ==
    IF lo = hi
    THEN [digits |-> << (cols[lo] + c) % 10 >>, carry |-> (cols[lo] + c) \div 10]
    ELSE LET mid  == (lo + hi) \div 2
             low  == Carried(cols, lo, mid, c)
             high == Carried(cols, mid + 1, hi, low.carry)
         IN  [digits |-> low.digits \o high.digits, carry |-> high.carry]

\* a * b, for a and b other than zero
Product(a, b) ==
    LET r == Carried(Columns(a, b), 1, Len(a) + Len(b) - 1, 0)
    IN  r.digits \o (IF r.carry = 0 THEN << >> ELSE << r.carry >>)

\* a >= b
AtLeast(a, b) ==
    \/ Len(a) > Len(b)
    \/ /\ Len(a) = Len(b)
       /\ LET diff == {n \in 1..Len(a) : a[n] # b[n]}
          IN  diff = {} \/ a[MaxOf(diff)] > b[MaxOf(diff)]

\* u / t raises OverflowError, for t > 0: abs(u) >= FLOAT_LIMIT * t
DivisionOverflows(u, t) ==
    LET abs == IF u[1] = "-" THEN Tail(u) ELSE u
    IN  AtLeast(Units(abs), Product(Units(FLOAT_LIMIT), Units(t)))

(***************************************************************************)
(* Console markup.  rich draws a str cell of a table through its markup    *)
(* parser.  A tag is "[", a first character out of a-z, "#", "/" and "@",  *)
(* and the text up to the next "]", with no "[" before it; an odd number   *)
(* of backslashes before the tag makes it plain text.  A closing tag (its  *)
(* name starts with "/") closes the open tag of its name, "[/]" the one    *)
(* opened last, and raises MarkupError when there is none.  Whether a      *)
(* closing tag closes an open tag whose name is spelt otherwise is decided *)
(* by rich's table of styles ("b" is "bold"), and what closing an "@" tag  *)
(* with parameters does by the parser of Python expressions: there both    *)
(* outcomes are left open.                                                 *)
(***************************************************************************)
\* the first place behind place q + 1 that holds a bracket (behind the text
\* when there is none)
TagEnd(s, q) ==
    MinOf({r \in (q + 2)..(Len(s) + 1) : r > Len(s) \/ s[r] \in {"[", "]"}})

\* a tag opens at place q of s
OpensTag(s, q) ==
    /\ s[q] = "["
    /\ q + 1 <= Len(s)
    /\ s[q + 1] \in {LowerChars[n] : n \in 1..Len(LowerChars)} \cup {"#", "/", "@"}
    /\ TagEnd(s, q) <= Len(s)
    /\ s[TagEnd(s, q)] = "]"

\* the texts of the tags of s from place p on, the escaped ones left out
RECURSIVE TagsFrom(_, _)
TagsFrom(s, p) ==
    LET opens == {q \in p..Len(s) : OpensTag(s, q)}
    IN  IF opens = {} THEN << >>
        ELSE LET q == MinOf(opens)
                 b == MinOf({m \in p..q : \A x \in m..(q - 1) : s[x] = "\\"})
             IN  (IF (q - b) % 2 = 0 THEN << SubSeq(s, q + 1, TagEnd(s, q) - 1) >>
                  ELSE << >>) \o TagsFrom(s, TagEnd(s, q) + 1)

\* tag_text.partition("="): the name of the tag t; its parameters are what
\* follows the "="
TagName(t) ==
    LET eq == {n \in 1..Len(t) : t[n] = "="}
    IN  IF eq = {} THEN t ELSE SubSeq(t, 1, MinOf(eq) - 1)

\* what the tags ts may do, read behind the open tags of stack
RECURSIVE MarkupWalk(_, _)
MarkupWalk(ts, stack) ==
    IF ts = << >> THEN {"none"}
    ELSE IF TagName(ts[1])[1] # "/"
    THEN MarkupWalk(Tail(ts), Append(stack, ts[1]))
    ELSE IF stack = << >> THEN {"MarkupError"}
    ELSE LET top        == stack[Len(stack)]
             style_name == Strip(Tail(TagName(ts[1])))
         IN  IF style_name # << >> /\ Strip(TagName(top)) # style_name
             THEN {"none", "MarkupError"}
             ELSE IF TagName(top)[1] = "@" /\ Len(top) > Len(TagName(top)) + 1
             THEN {"none", "MarkupError"}
             ELSE MarkupWalk(Tail(ts), SubSeq(stack, 1, Len(stack) - 1))

\* what drawing the cell s may do: "none" when it may be drawn, "MarkupError"
\* when it may raise
Markup(s) == MarkupWalk(TagsFrom(s, 1), << >>)

(***************************************************************************)
(* make_device_table and make_process_table.  A row holds the cells the    *)
(* code passes to Table.add_row; the power cell is the float the code      *)
(* formats to one decimal, and the CPU cell, psutil's figure formatted to  *)
(* one decimal, is left out.  A float quotient is kept as the two ints it  *)
(* was divided from.  A bar is kept by its task: the colour and the length *)
(* of the bar are computed from the same ratio and raise nothing.          *)
(***************************************************************************)
\* the ratio make_bar is given: an int, or the float num / den
IntRatio(v) == [kind |-> "int", num |-> v, den |-> << "1" >>]

\* line 328 raises OverflowError
HbmOverflows(dev) ==
    Positive(dev.hbm_total) /\ DivisionOverflows(dev.hbm_used, dev.hbm_total)

\* lines 326-328: hbm_ratio
HbmRatio(dev) ==
    IF Positive(dev.hbm_total)
    THEN [kind |-> "float", num |-> dev.hbm_used, den |-> dev.hbm_total]
    ELSE IntRatio(ZERO)

\* make_bar(ratio): the task of the bar, completed = ratio * 100 of total = 100
MakeBar(ratio) ==
    [completed |-> [kind |-> ratio.kind, num |-> Times100(ratio.num), den |-> ratio.den],
     total     |-> << "1","0","0" >>]

\* lines 350-359: the row of dev
DeviceRow(dev) ==
    [npu     |-> dev.id,
     name    |-> dev.name,
     bus_id  |-> dev.bus_id,
     health  |-> dev.health,
     power   |-> dev.power,
     temp    |-> dev.temp,
     mem_bar |-> MakeBar(HbmRatio(dev)),
     ai_bar  |-> MakeBar(IntRatio(dev.ai_core))]

\* make_device_table(devs), when line 328 raises for none of them
MakeDeviceTable(devs) == [n \in 1..Len(devs) |-> DeviceRow(devs[n])]

\* command lines psutil may report of a live process: none (a kernel thread),
\* "python3.9 train.py", "sh -c [/b]"
EnvCommands ==
    {<< >>,
     << "p","y","t","h","o","n","3",".","9"," ","t","r","a","i","n",".","p","y" >>,
     << "s","h"," ","-","c"," ","[","/","b","]" >>}

\* lines 388-393: cmd_str is the command line of the process when int(pid)
\* returns the pid of a live process, and the name of the row otherwise
Commands(proc) ==
    {proc.name}
    \cup (IF IntOk(proc.pid) /\ Positive(IntVal(proc.pid)) THEN EnvCommands ELSE {})

\* lines 394-400: the row of proc on device npu_id, shown with command cmd
ProcessRow(npu_id, proc, cmd) ==
    [npu     |-> npu_id,
     pid     |-> proc.pid,
     mem     |-> proc.mem \o << "M","B" >>,
     command |-> cmd]

\* the rows make_process_table may build of the list procs of device npu_id
RowsOf(npu_id, procs) ==
    LET choice(n) == {ProcessRow(npu_id, procs[n], c) : c \in Commands(procs[n])}
    IN  {rows \in [1..Len(procs) -> UNION {choice(n) : n \in 1..Len(procs)}] :
            \A n \in 1..Len(procs) : rows[n] \in choice(n)}

\* the tables make_process_table(map) may build: the rows of every device
\* with a list that is not empty
ProcessTables(map) ==
    LET shown == {d \in DOMAIN map : map[d] # << >>}
    IN  {t \in [shown -> UNION {RowsOf(d, map[d]) : d \in shown}] :
            \A d \in shown : t[d] \in RowsOf(d, map[d])}

\* what drawing the cells may do
TextOutcomes(cells) ==
    (IF \E c \in cells : "MarkupError" \in Markup(c) THEN {"MarkupError"} ELSE {})
    \cup (IF \A c \in cells : "none" \in Markup(c) THEN {"none"} ELSE {})

\* what drawing the bars of the device table dt may do: Task.percentage,
\* completed / total, raises OverflowError when both are ints and the quotient
\* is beyond the floats
BarOutcomes(dt) ==
    LET overflows(bar) == /\ bar.completed.kind = "int"
                          /\ DivisionOverflows(bar.completed.num, bar.total)
    IN  IF \E n \in 1..Len(dt) : overflows(dt[n].mem_bar) \/ overflows(dt[n].ai_bar)
        THEN {"OverflowError"}
        ELSE {"none"}

\* first what o1 raises, then, if it may pass, o2
Then(o1, o2) == (o1 \ {"none"}) \cup (IF "none" \in o1 THEN o2 ELSE {})

\* What live.refresh() may do with the layout of dt and pt: the device table
\* is measured column by column (names, bus ids, healths, then the bars), the
\* process table behind it.
RenderOutcomes(dt, pt) ==
    LET devCells  == UNION {{dt[n].name, dt[n].bus_id, dt[n].health} : n \in 1..Len(dt)}
        procCells == UNION {UNION {{pt[d][n].pid, pt[d][n].command} :
                                      n \in 1..Len(pt[d])} : d \in DOMAIN pt}
    IN  Then(TextOutcomes(devCells), Then(BarOutcomes(dt), TextOutcomes(procCells)))

(***************************************************************************)
(* The reports the model feeds the parsers: lines rendered cell by cell in *)
(* the layout npu-smi prints, numbers rendered in decimal.                 *)
(***************************************************************************)
MaxDevLines == 4      \* lines of a freely composed device section
MaxProcRows == 3      \* lines behind the header of a freely composed process section

RECURSIVE Dec(_)
Dec(n) == IF n < 10 THEN << DigitChars[n + 1] >>
          ELSE Dec(n \div 10) \o << DigitChars[(n % 10) + 1] >>

\* "| c1 | c2 | ... |"
RECURSIVE Cells(_)
Cells(cs) == IF cs = << >> THEN << "|" >>
             ELSE << "|", " " >> \o cs[1] \o << " " >> \o Cells(Tail(cs))

SeqsUpTo(S, n) == UNION {[1..m -> S] : m \in 0..n}

SLASH   == << "/" >>
NAME    == << "9","1","0","B","4" >>
OK      == << "O","K" >>
BUS     == << "0","0","0","0",":","C","1",":","0","0",".","0" >>
WATTS   == << "8","8",".","2" >>
PYTHON  == << "p","y","t","h","o","n","3",".","9" >>
SHELL   == << "s","h" >>
EXP_WATTS  == << "1","e","3" >>            \* a power written with an exponent
INF_WATTS  == << "I","n","f" >>            \* a power float() reads as the infinity
ARABIC_1   == << "U+0661" >>               \* the Arabic-Indic digits one, two, three
ARABIC_2   == << "U+0662" >>
ARABIC_3   == << "U+0663" >>
WIDE_7     == << "U+FF17" >>               \* the fullwidth digit seven
SUPER_2    == << "U+00B2" >>               \* superscript two: isdigit, no decimal digit
MAX_ZEROS  == [n \in 1..MaxStrDigits |-> "0"]        \* the longest numeral int() takes
LONG_ZEROS == [n \in 1..(MaxStrDigits + 1) |-> "0"]  \* one digit more: int() raises
BORDER  == << "+","=","=","=","+" >>
DEV_HEADER  == Cells(<< << "N","P","U" >>, << "N","a","m","e" >> >>)
PROC_HEADER == Cells(<< << "N","P","U" >>, PROCESS_ID, PROCESS_MEMORY >>)
HALF_HEADER_ID  == Cells(<< << "N","P","U" >>, PROCESS_ID >>)
HALF_HEADER_MEM == Cells(<< << "N","P","U" >>, PROCESS_MEMORY >>)

\* the line with a no-break space for every space
Nbsp(line) == [n \in 1..Len(line) |-> IF line[n] = " " THEN "U+00A0" ELSE line[n]]

\* segment 3 of a line A: power, temperature, hugepages used / total
PowerSeg(power, temp, used, total) == JoinSp(<< power, temp, used, SLASH, total >>)

LineA(idTok, powerSeg) == Cells(<< JoinSp(<< idTok, NAME >>), OK, powerSeg >>)

GoodPower == PowerSeg(WATTS, Dec(39), Dec(0), Dec(0))

A(n) == LineA(Dec(n), GoodPower)

\* segment 3 of a line B for the values v = <<aiCore, memUsed, memTotal, hbmUsed,
\* hbmTotal>>; glued names the slashes (1 = memory, 2 = HBM) written without a
\* space behind the numeral before them
Seg3(v, glued) ==
    JoinSp(<< Dec(v[1]) >>
           \o (IF 1 \in glued THEN << Dec(v[2]) \o SLASH >> ELSE << Dec(v[2]), SLASH >>)
           \o << Dec(v[3]) >>
           \o (IF 2 \in glued THEN << Dec(v[4]) \o SLASH >> ELSE << Dec(v[4]), SLASH >>)
           \o << Dec(v[5]) >>)

LineB(chip, seg3) == Cells(<< Dec(chip), BUS, seg3 >>)

B(n) == LineB(n, Seg3(<< 0, 0, 0, 3043 + n, 32768 >>, {}))

TokVecs == {<< a, u, t, h, 32768 >> : a \in {0, 57}, u \in {0, 3}, t \in {0, 15},
                                     h \in {3043, 30431}}

\* line A's that leave the function by an exception
RaisingA == {LineA(<< "0","x" >>, GoodPower),
             Cells(<< JoinSp(<< Dec(0), NAME >>), OK >>),
             LineA(Dec(0), PowerSeg(<< "N","A" >>, Dec(39), Dec(0), Dec(0))),
             LineA(Dec(0), PowerSeg(WATTS, << "x" >>, Dec(0), Dec(0))),
             LineA(SUPER_2, GoodPower)}

\* line B's that leave the function by an exception
ShortB == Cells(<< Dec(0), BUS >>)

RaisingB == {ShortB}

\* lines whose bad token is caught inside the function
FaultA == LineA(Dec(0), PowerSeg(WATTS, Dec(39), << "a" >>, << "b" >>))

FaultB == LineB(0, JoinSp(<< Dec(0), Dec(0), SLASH, Dec(0), << "x" >>, SLASH, Dec(32768) >>))

\* well-formed line A's in other characters than npu-smi prints: an exponent,
\* an infinite power, an id in Arabic-Indic digits, no-break spaces
ForeignA == {LineA(Dec(0), PowerSeg(EXP_WATTS, Dec(39), Dec(0), Dec(0))),
             LineA(ARABIC_3, PowerSeg(INF_WATTS, Dec(39), Dec(0), Dec(0))),
             Nbsp(A(1))}

\* line A's with a numeral at and beyond the limit of int(): the id of NPU 0
\* in MaxStrDigits zeros, the id in one zero more (ValueError leaves the
\* function), the hugepages in use in as many (caught inside the function)
MaxIdA   == LineA(MAX_ZEROS, GoodPower)
LongIdA  == LineA(LONG_ZEROS, GoodPower)
LongHugeA == LineA(Dec(0), PowerSeg(WATTS, Dec(39), LONG_ZEROS, Dec(0)))

FreeDevLines == {A(0), A(1), B(0), B(1), BORDER, DEV_HEADER}

DevReports ==
    SeqsUpTo(FreeDevLines, MaxDevLines)
    \cup {<< A(0), LineB(0, Seg3(v, {})), A(1), LineB(1, Seg3(v, g)) >> :
             v \in TokVecs, g \in SUBSET {1, 2}}
    \cup UNION {{<< a, B(0) >>, << a, B(0), A(1), B(1) >>, << A(1), B(1), a, B(0) >>} :
                   a \in RaisingA \cup {FaultA}}
    \cup UNION {{<< A(0), b >>, << A(0), b, A(1), B(1) >>, << A(1), B(1), A(0), b >>} :
                   b \in RaisingB \cup {FaultB}}
    \cup UNION {{<< a, B(0) >>, << a, Nbsp(B(1)), A(0), B(0) >>} : a \in ForeignA}
    \cup {<< A(0), B(0), PROC_HEADER, A(1), B(1) >>, << FaultA, ShortB >>}
    \cup {<< MaxIdA, B(0) >>, << A(1), B(1), LongIdA, B(0) >>, << LongHugeA, B(0) >>}

\* a process row "| npu chip | pid | name | mem |"
Row(npu, pid, name, mem) == Cells(<< JoinSp(<< npu, Dec(0) >>), pid, name, mem >>)

Sentinel(n) == Cells(<< JoinSp(<< NO_RUNNING, Dec(n) >>) >>)

BadIdRow  == Row(<< "x" >>, Dec(77), PYTHON, Dec(5))
BadMemRow == Row(Dec(1), Dec(55), PYTHON, << "N","/","A" >>)
ShortRow  == Cells(<< JoinSp(<< Dec(0), Dec(0) >>), Dec(66), PYTHON >>)

\* a row and a sentinel in Arabic-Indic and fullwidth digits, set off by
\* no-break spaces: NPU 1 with memory 7, and NPU 2 idle
ForeignRow      == Nbsp(Row(ARABIC_1, Dec(44), SHELL, WIDE_7))
ForeignSentinel == Cells(<< NO_RUNNING \o << "U+00A0" >> \o ARABIC_2 >>)

\* sentinels and rows with a numeral at and beyond the limit of int(): NPU 0
\* idle in MaxStrDigits zeros, a sentinel of one zero more (ValueError leaves
\* the function), a row with such an id, a row of NPU 1 with such a memory
MaxSentinel  == Cells(<< JoinSp(<< NO_RUNNING, MAX_ZEROS >>) >>)
LongSentinel == Cells(<< JoinSp(<< NO_RUNNING, LONG_ZEROS >>) >>)
LongIdRow    == Row(LONG_ZEROS, Dec(77), PYTHON, Dec(5))
LongMemRow   == Row(Dec(1), Dec(55), SHELL, MAX_ZEROS \o << "7" >>)

\* the well-formed rows of the model, as (npu, pid, name, mem)
GoodRows == {<< 0, 2488494, PYTHON, 99 >>, << 0, 31, SHELL, 1024 >>,
             << 1, 2488494, PYTHON, 7 >>}

RowOf(r) == Row(Dec(r[1]), Dec(r[2]), r[3], Dec(r[4]))

BodyLines == {RowOf(r) : r \in GoodRows}
             \cup {Sentinel(0), BadIdRow, BadMemRow, ShortRow, BORDER}

\* what may stand before the header: rows and sentinels of NPU 7 only
PrefixRow == Row(Dec(7), Dec(88), SHELL, Dec(3))

PrefixLines == {Sentinel(7), PrefixRow}

ProcReports ==
    {p \o << PROC_HEADER >> \o b :
        p \in SeqsUpTo(PrefixLines, 1), b \in SeqsUpTo(BodyLines, MaxProcRows)}
    \cup {p \o b : p \in SeqsUpTo(PrefixLines, 1), b \in SeqsUpTo(BodyLines, 1)}
    \cup {<< PROC_HEADER, Cells(<< NO_RUNNING >>) >>,
          << PROC_HEADER, Cells(<< NO_RUNNING \o << "s" >> \o << " " >> \o Dec(2) >>) >>,
          << PROC_HEADER, JoinSp(<< NO_RUNNING, Dec(2) >>) >>,
          << PROC_HEADER, Sentinel(2), PROC_HEADER, Sentinel(3) >>,
          << PROC_HEADER, ForeignRow, ForeignSentinel >>,
          << PROC_HEADER, RowOf(<< 0, 31, SHELL, 1024 >>), MaxSentinel, LongIdRow, LongMemRow >>,
          << PROC_HEADER, RowOf(<< 0, 31, SHELL, 1024 >>), LongSentinel, Sentinel(1) >>,
          << LongSentinel, PROC_HEADER, LongMemRow >>,
          << PROC_HEADER, RowOf(<< 1, 2488494, PYTHON, 7 >>), ForeignSentinel, ForeignRow >>,
          << ForeignSentinel, PROC_HEADER, Sentinel(1), ForeignRow,
             RowOf(<< 1, 2488494, PYTHON, 7 >>) >>,
          << HALF_HEADER_ID, Sentinel(2) >>,
          << HALF_HEADER_MEM, Sentinel(2), RowOf(<< 0, 31, SHELL, 1024 >>) >>}

\* a report of one idle device
GoodReport == << A(0), B(0), PROC_HEADER, Sentinel(0) >>

\* the device is named "[/b]": a closing tag with nothing to close
TaggedReport ==
    << Cells(<< JoinSp(<< Dec(0), << "[","/","b","]" >> >>), OK, GoodPower >>), B(0),
       PROC_HEADER, Sentinel(0) >>

\* a process named "[b]sh[/b]", "sh" between a tag and its closing tag; its
\* pid 0 is the pid of no process
PairReport ==
    << A(0), B(0), PROC_HEADER,
       Row(Dec(0), Dec(0), << "[","b","]","s","h","[","/","b","]" >>, Dec(5)) >>

\* the HBM in use is FLOAT_LIMIT, of a total of 1
HugeHbmReport ==
    << A(0), LineB(0, JoinSp(<< Dec(0), Dec(0), SLASH, Dec(0), FLOAT_LIMIT, SLASH, Dec(1) >>)) >>

\* the HBM in use is the largest int below FLOAT_LIMIT, of a total of 1
BelowHbmReport ==
    << A(0),
       LineB(0, JoinSp(<< Dec(0), Dec(0), SLASH, Dec(0),
                          SubSeq(FLOAT_LIMIT, 1, Len(FLOAT_LIMIT) - 1) \o << "1" >>,
                          SLASH, Dec(1) >>)) >>

\* the AI core figure is FLOAT_LIMIT
HugeAiReport ==
    << A(0),
       LineB(0, JoinSp(<< FLOAT_LIMIT, Dec(0), SLASH, Dec(0), Dec(3043), SLASH, Dec(32768) >>)),
       PROC_HEADER, Sentinel(0) >>

\* the reports the poll loop may fetch; << >> is a command that prints
\* nothing, and the last is a process named "[bold]sh[/b]": "sh" between the
\* tag "bold" and the closing tag of its other name "b"
MainReports ==
    {<< >>,
     GoodReport,
     << A(0), B(0), A(1), B(1), PROC_HEADER, RowOf(<< 0, 31, SHELL, 1024 >>), Sentinel(1) >>,
     << FaultA, B(0), PROC_HEADER, Sentinel(0) >>,
     << A(0), FaultB >>,
     << LineA(<< "0","x" >>, GoodPower), B(0), PROC_HEADER, Sentinel(0) >>,
     << A(0), B(0), PROC_HEADER, LongSentinel >>,
     TaggedReport, PairReport, HugeHbmReport, BelowHbmReport, HugeAiReport,
     << A(0), B(0), PROC_HEADER,
        Row(Dec(0), Dec(0), << "[","b","o","l","d","]","s","h","[","/","b","]" >>, Dec(5)) >>}

(***************************************************************************)
(* parse_device_section, step by step                                      *)
(***************************************************************************)
\* lines 76-89: the device section's candidate lines are collected
DevCollect ==
    /\ pc = "dev_start"
    /\ data_lines' = DataLines(DeviceSectionLines(output))
    /\ i' = 0
    /\ devices' = << >>
    /\ pc' = "dev_pair"
    /\ UNCHANGED << output, raised, exception_triggered, procVars, tableVars, mainVars >>

\* lines 90-168: one iteration of the pair loop
DevPair ==
    /\ pc = "dev_pair"
    /\ PairMore(data_lines, i)
    /\ LET st == PairStep(data_lines,
                          [i |-> i, devices |-> devices, fault |-> exception_triggered])
       IN  /\ exception_triggered' = st.fault
           /\ devices' = st.devices
           /\ IF st.err = "none"
              THEN i' = st.i /\ UNCHANGED << pc, raised >>
              ELSE pc' = "raised" /\ raised' = st.err /\ UNCHANGED i
    /\ UNCHANGED << output, data_lines, procVars, tableVars, mainVars >>

\* line 170
DevReturn ==
    /\ pc = "dev_pair"
    /\ ~PairMore(data_lines, i)
    /\ pc' = "dev_done"
    /\ UNCHANGED << output, devVars, raised, exception_triggered, procVars, tableVars, mainVars >>

(***************************************************************************)
(* parse_process_section, step by step                                     *)
(***************************************************************************)
\* lines 185-187
ProcStart ==
    /\ pc = "proc_start"
    /\ k' = 0
    /\ in_process_section' = FALSE
    /\ process_lines' = << >>
    /\ pc' = "proc_scan"
    /\ UNCHANGED << output, devVars, raised, exception_triggered, j,
                    processes_by_npu, tableVars, mainVars >>

\* lines 189-200: one iteration of the scanning loop
ProcScan ==
    /\ pc = "proc_scan"
    /\ k < Len(output)
    /\ LET st == ScanLine([in_process_section |-> in_process_section,
                           process_lines      |-> process_lines], output[k + 1])
       IN  /\ in_process_section' = st.in_process_section
           /\ process_lines' = st.process_lines
    /\ k' = k + 1
    /\ UNCHANGED << pc, output, devVars, raised, exception_triggered, j,
                    processes_by_npu, tableVars, mainVars >>

\* line 202: the scanning loop is exhausted
ProcScanDone ==
    /\ pc = "proc_scan"
    /\ k = Len(output)
    /\ processes_by_npu' = EmptyMap
    /\ j' = 0
    /\ pc' = "proc_build"
    /\ UNCHANGED << output, devVars, raised, exception_triggered, k,
                    in_process_section, process_lines, tableVars, mainVars >>

\* lines 203-234: one iteration of the building loop
ProcBuild ==
    /\ pc = "proc_build"
    /\ j < Len(process_lines)
    /\ LET b == BuildLine(processes_by_npu, process_lines[j + 1])
       IN  IF b.err = "none"
           THEN /\ processes_by_npu' = b.map
                /\ j' = j + 1
                /\ UNCHANGED << pc, raised >>
           ELSE /\ pc' = "raised"
                /\ raised' = b.err
                /\ UNCHANGED << processes_by_npu, j >>
    /\ UNCHANGED << output, devVars, exception_triggered, k,
                    in_process_section, process_lines, tableVars, mainVars >>

\* line 236
ProcReturn ==
    /\ pc = "proc_build"
    /\ j = Len(process_lines)
    /\ pc' = "proc_done"
    /\ UNCHANGED << output, devVars, raised, exception_triggered, procVars, tableVars, mainVars >>

(***************************************************************************)
(* main: the poll loop                                                     *)
(***************************************************************************)
\* get_npu_smi_output returns what the command printed
FetchOk ==
    /\ pc = "fetch"
    /\ \E r \in MainReports : output' = r
    /\ pc' = "check"
    /\ UNCHANGED << devVars, raised, exception_triggered, procVars, tableVars, mainVars >>

\* get_npu_smi_output: the command fails, console.print_exception, return ""
FetchFail ==
    /\ pc = "fetch"
    /\ exception_triggered' = TRUE
    /\ output' = << >>
    /\ pc' = "check"
    /\ UNCHANGED << devVars, raised, procVars, tableVars, mainVars >>

\* lines 455-457: if not output: sleep, continue
NoData ==
    /\ pc = "check"
    /\ output = << >>
    /\ prev_nodata' = TRUE
    /\ pc' = "fetch"
    /\ UNCHANGED << output, devVars, raised, exception_triggered, procVars,
                    tableVars, last_decision >>

\* line 458: devices = parse_device_section(output)
CallDevice ==
    /\ pc = "check"
    /\ output # << >>
    /\ pc' = "dev_start"
    /\ UNCHANGED << output, devVars, raised, exception_triggered, procVars, tableVars, mainVars >>

\* line 459: processes_by_npu = parse_process_section(output)
CallProcess ==
    /\ pc = "dev_done"
    /\ pc' = "proc_start"
    /\ UNCHANGED << output, devVars, raised, exception_triggered, procVars, tableVars, mainVars >>

\* lines 462-487: the tables and the layout are built.  make_device_table
\* raises OverflowError at line 328 for the first device whose HBM quotient is
\* too large for a float, and the exception leaves main; make_process_table
\* asks psutil for the command line of every row.
BuildLayout ==
    /\ pc = "proc_done"
    /\ IF \E n \in 1..Len(devices) : HbmOverflows(devices[n])
       THEN /\ pc' = "raised"
            /\ raised' = "OverflowError"
            /\ UNCHANGED tableVars
       ELSE /\ device_table' = MakeDeviceTable(devices)
            /\ \E t \in ProcessTables(processes_by_npu) : process_table' = t
            /\ pc' = "render"
            /\ UNCHANGED raised
    /\ UNCHANGED << output, devVars, exception_triggered, procVars, mainVars >>

\* lines 491-493, 497: the flag is down, live.update(layout) and
\* live.refresh(), which draws the layout; an exception of the drawing leaves
\* main (the exit of the "with" block at line 451 draws the same layout and
\* raises the same exception)
Render ==
    /\ pc = "render"
    /\ ~exception_triggered
    /\ \E o \in RenderOutcomes(device_table, process_table) :
          IF o = "none"
          THEN /\ last_decision' = "render"
               /\ prev_nodata' = FALSE
               /\ pc' = "fetch"
               /\ UNCHANGED raised
          ELSE /\ pc' = "raised"
               /\ raised' = o
               /\ UNCHANGED mainVars
    /\ UNCHANGED << output, devVars, exception_triggered, procVars, tableVars >>

\* SkipRender without "exception_triggered = False"
SkipRender_KeepFlag ==
    /\ pc = "render"
    /\ exception_triggered
    /\ last_decision' = "skip"
    /\ prev_nodata' = FALSE
    /\ pc' = "fetch"
    /\ UNCHANGED << output, devVars, raised, exception_triggered, procVars, tableVars >>

\* lines 494-497: the flag is up, the refresh is skipped and the flag cleared
SkipRender ==
    /\ pc = "render"
    /\ exception_triggered
    /\ exception_triggered' = FALSE
    /\ last_decision' = "skip"
    /\ prev_nodata' = FALSE
    /\ pc' = "fetch"
    /\ UNCHANGED << output, devVars, raised, procVars, tableVars >>

(***************************************************************************)
(* The specifications: each parser called on its own, and the poll loop.   *)
(***************************************************************************)
Fresh ==
    /\ data_lines = << >> /\ i = 0 /\ devices = << >>
    /\ raised = "none"
    /\ exception_triggered = FALSE
    /\ k = 0 /\ in_process_section = FALSE /\ process_lines = << >> /\ j = 0
    /\ processes_by_npu = EmptyMap
    /\ device_table = << >>
    /\ process_table = EmptyMap
    /\ last_decision = "none"
    /\ prev_nodata = FALSE

InitDev == pc = "dev_start" /\ output \in DevReports /\ Fresh

NextDev == DevCollect \/ DevPair \/ DevReturn

SpecDev == InitDev /\ [][NextDev]_vars

InitProc == pc = "proc_start" /\ output \in ProcReports /\ Fresh

NextProc == ProcStart \/ ProcScan \/ ProcScanDone \/ ProcBuild \/ ProcReturn

SpecProc == InitProc /\ [][NextProc]_vars

Init == pc = "fetch" /\ output = << >> /\ Fresh

Next ==
    \/ FetchOk \/ FetchFail \/ NoData \/ CallDevice
    \/ DevCollect \/ DevPair \/ DevReturn \/ CallProcess
    \/ ProcStart \/ ProcScan \/ ProcScanDone \/ ProcBuild \/ ProcReturn
    \/ BuildLayout \/ Render \/ SkipRender

Spec == Init /\ [][Next]_vars

(***************************************************************************)
(* What the process section of a report says, read off the lines it was    *)
(* composed of.                                                            *)
(***************************************************************************)
NpuIds == 0..7

\* the rows of the model that parse_process_section accepts
AcceptedRows ==
    {[line |-> RowOf(r), npu |-> r[1],
      rec  |-> [pid |-> Dec(r[2]), name |-> r[3], mem |-> Dec(r[4])]] : r \in GoodRows}
    \cup {[line |-> BadMemRow, npu |-> 1,
           rec  |-> [pid |-> Dec(55), name |-> PYTHON, mem |-> Dec(0)]],
          [line |-> PrefixRow, npu |-> 7,
           rec  |-> [pid |-> Dec(88), name |-> SHELL, mem |-> Dec(3)]],
          [line |-> ForeignRow, npu |-> 1,
           rec  |-> [pid |-> Dec(44), name |-> SHELL, mem |-> Dec(7)]],
          [line |-> LongMemRow, npu |-> 1,
           rec  |-> [pid |-> Dec(55), name |-> SHELL, mem |-> Dec(0)]]}

\* the idle sentinel lines of the model, with the device each names
SentinelLines ==
    {[line |-> Sentinel(d), npu |-> d] : d \in NpuIds}
    \cup {[line |-> ForeignSentinel, npu |-> 2], [line |-> MaxSentinel, npu |-> 0]}

\* the index of the first header line (behind the text when there is none)
HeaderAt ==
    IF \E n \in 1..Len(output) : output[n] = PROC_HEADER
    THEN MinOf({n \in 1..Len(output) : output[n] = PROC_HEADER})
    ELSE Len(output) + 1

\* the lines of the table that are idle sentinels of device d
SentinelsOf(d) ==
    {n \in (HeaderAt + 1)..Len(output) :
        \E t \in SentinelLines : t.line = output[n] /\ t.npu = d}

\* the records of d's accepted rows on the lines behind line m, in input order
RECURSIVE RowsBehind(_, _)
RowsBehind(d, m) ==
    IF m >= Len(output) THEN << >>
    ELSE LET hit == {a \in AcceptedRows : a.line = output[m + 1] /\ a.npu = d}
         IN  (IF hit = {} THEN << >> ELSE << (CHOOSE a \in hit : TRUE).rec >>)
             \o RowsBehind(d, m + 1)

\* the list the result holds for d (none is no rows)
ListOf(d) ==
    IF Dec(d) \in DOMAIN processes_by_npu THEN processes_by_npu[Dec(d)] ELSE << >>

(***************************************************************************)
(* C1                                                                      *)
(***************************************************************************)
\* C1, as stated: when parse_process_section returns, every device id named by
\* an idle sentinel line of the table is a key of the map and its value is the
\* empty sequence, whatever rows of the same device stand before or behind it.
C1_IdleAlwaysEmpty ==
    pc = "proc_done" =>
        \A d \in NpuIds : SentinelsOf(d) # {} =>
            Dec(d) \in DOMAIN processes_by_npu /\ processes_by_npu[Dec(d)] = << >>

\* C1, amended: every device id named by an idle sentinel line of the table is
\* a key of the map; its value holds the device's accepted rows that stand
\* behind the device's last sentinel line, in input order, and nothing else:
\* it is empty exactly when no accepted row of the device follows that line,
\* and rows before the sentinel are discarded by it.
C1_SentinelResets ==
    pc = "proc_done" =>
        \A d \in NpuIds : SentinelsOf(d) # {} =>
            /\ Dec(d) \in DOMAIN processes_by_npu
            /\ processes_by_npu[Dec(d)] = RowsBehind(d, MaxOf(SentinelsOf(d)))

\* a row of NPU 0, its sentinel, another row of NPU 0: one record is returned
C1_Witness ==
    /\ pc = "proc_done"
    /\ output = << PROC_HEADER, RowOf(<< 0, 2488494, PYTHON, 99 >>), Sentinel(0),
                   RowOf(<< 0, 31, SHELL, 1024 >>) >>
    /\ processes_by_npu[Dec(0)] =
          << [pid |-> Dec(31), name |-> SHELL, mem |-> Dec(1024)] >>

(***************************************************************************)
(* C6                                                                      *)
(***************************************************************************)
\* C6: the scanner starts before-header, enters in-table only on a line that
\* holds both "Process id" and "Process memory(MB)" and never leaves it; no
\* line at or before the first header contributes a key or a kept line, a text
\* without header yields the empty map, and lines that do not start with "|"
\* (the borders of '+', '-', '=') are not kept.
C6_ScannerStates ==
    /\ [][/\ pc = "proc_start" => ~in_process_section'
          /\ in_process_section => in_process_section'
          /\ (~in_process_section /\ in_process_section')
                => pc = "proc_scan" /\ output[k + 1] = PROC_HEADER
          /\ (pc = "proc_scan" /\ process_lines' # process_lines)
                => /\ in_process_section /\ k + 1 > HeaderAt
                   /\ output[k + 1] \notin {BORDER, PROC_HEADER}
                   /\ process_lines' = Append(process_lines, output[k + 1])]_vars
    /\ [](pc = "proc_done" =>
            /\ Dec(7) \notin DOMAIN processes_by_npu
            /\ HeaderAt > Len(output) => processes_by_npu = EmptyMap
            /\ \A key \in DOMAIN processes_by_npu :
                  \E d \in NpuIds : \E n \in (HeaderAt + 1)..Len(output) :
                     /\ key = Dec(d)
                     /\ \/ n \in SentinelsOf(d)
                        \/ \E a \in AcceptedRows : a.line = output[n] /\ a.npu = d)

\* a sentinel of NPU 7 before the header, a border and a row behind it
C6_Witness ==
    /\ pc = "proc_done"
    /\ output = << Sentinel(7), PROC_HEADER, BORDER, RowOf(<< 1, 2488494, PYTHON, 7 >>) >>
    /\ in_process_section
    /\ process_lines = << RowOf(<< 1, 2488494, PYTHON, 7 >>) >>
    /\ DOMAIN processes_by_npu = {Dec(1)}

(***************************************************************************)
(* C7                                                                      *)
(***************************************************************************)
\* C7: in the building loop, a row whose device id token is no integer leaves
\* the map unchanged, a row with three segments leaves it unchanged, and a row
\* whose memory segment is no integer is appended to its device's list with
\* mem = 0 and its pid and name as written.
C7_RowFields ==
    [][(pc = "proc_build" /\ j' = j + 1) =>
          LET line == process_lines[j + 1]
          IN  /\ line = BadIdRow => processes_by_npu' = processes_by_npu
              /\ line = ShortRow => processes_by_npu' = processes_by_npu
              /\ line = BadMemRow =>
                    /\ DOMAIN processes_by_npu' = DOMAIN processes_by_npu \cup {Dec(1)}
                    /\ processes_by_npu'[Dec(1)] =
                          Append(ListOf(1),
                                 [pid |-> Dec(55), name |-> PYTHON, mem |-> Dec(0)])
                    /\ \A d \in DOMAIN processes_by_npu \ {Dec(1)} :
                          processes_by_npu'[d] = processes_by_npu[d]]_vars

\* the three kinds of row have been through the loop: one record, mem = 0
C7_Witness ==
    /\ pc = "proc_build"
    /\ process_lines = << BadIdRow, BadMemRow, ShortRow >>
    /\ j = 3
    /\ DOMAIN processes_by_npu = {Dec(1)}
    /\ processes_by_npu[Dec(1)] = << [pid |-> Dec(55), name |-> PYTHON, mem |-> Dec(0)] >>

(***************************************************************************)
(* C8                                                                      *)
(***************************************************************************)
\* C8, as stated: for every device id the returned list holds the device's
\* accepted process rows of the table, in input order, without duplication.
C8_AllRowsInOrder ==
    pc = "proc_done" => \A d \in NpuIds : ListOf(d) = RowsBehind(d, HeaderAt)

\* C8, amended: for every device id the returned list holds the device's
\* accepted process rows that stand behind the device's last idle sentinel line
\* (all its rows of the table when it has none), in input order, without
\* duplication, for any interleaving with other devices' rows.
C8_RowsInInputOrder ==
    pc = "proc_done" =>
        \A d \in NpuIds :
            ListOf(d) = RowsBehind(d, IF SentinelsOf(d) = {} THEN HeaderAt
                                      ELSE MaxOf(SentinelsOf(d)))

\* rows of NPU 0 and NPU 1 interleaved
C8_Witness ==
    /\ pc = "proc_done"
    /\ output = << PROC_HEADER, RowOf(<< 0, 31, SHELL, 1024 >>),
                   RowOf(<< 1, 2488494, PYTHON, 7 >>), RowOf(<< 0, 2488494, PYTHON, 99 >>) >>
    /\ processes_by_npu[Dec(0)] =
          << [pid |-> Dec(31), name |-> SHELL, mem |-> Dec(1024)],
             [pid |-> Dec(2488494), name |-> PYTHON, mem |-> Dec(99)] >>
    /\ processes_by_npu[Dec(1)] =
          << [pid |-> Dec(2488494), name |-> PYTHON, mem |-> Dec(7)] >>

(***************************************************************************)
(* What the device section of a report says, read off the lines it was     *)
(* composed of.                                                            *)
(***************************************************************************)
\* the well-formed candidate lines of the freely composed sections, with the
\* leading integer, the first and the second segment each was written with
KnownLines ==
    {[line |-> A(n), id |-> n, seg1 |-> JoinSp(<< Dec(n), NAME >>), seg2 |-> OK,
      name |-> NAME, hbm |-> 0] : n \in {0, 1}}
    \cup {[line |-> B(n), id |-> n, seg1 |-> Dec(n), seg2 |-> BUS,
           name |-> << >>, hbm |-> 3043 + n] : n \in {0, 1}}

Known(line) == CHOOSE c \in KnownLines : c.line = line

IsKnown(line) == \E c \in KnownLines : c.line = line

\* the line B's written from five values, spaced or glued
GluedLines ==
    {[line |-> LineB(c, Seg3(v, g)), v |-> v, g |-> g] :
        c \in {0, 1}, v \in TokVecs, g \in SUBSET {1, 2}}

BadIdA == LineA(<< "0","x" >>, GoodPower)

(***************************************************************************)
(* C2                                                                      *)
(***************************************************************************)
\* C2: when the id token of a line A is "0x", the pair is skipped, every other
\* pair still yields its record and no exception leaves parse_device_section.
C2_BadIdPairSkipped ==
    (\E n \in 1..Len(data_lines) : n % 2 = 1 /\ n < Len(data_lines)
                                   /\ data_lines[n] = BadIdA)
    => /\ pc # "raised"
       /\ raised = "none"
       /\ pc = "dev_done" =>
             Len(devices) = Cardinality({n \in 1..Len(data_lines) :
                                /\ n % 2 = 1 /\ n < Len(data_lines)
                                /\ data_lines[n] # BadIdA})

(***************************************************************************)
(* C3                                                                      *)
(***************************************************************************)
\* C3: for every report (the empty one, a line A or B with fewer than three
\* segments, a non-numeric power or temperature token) parse_device_section
\* returns without raising, and the empty report yields the empty list.
C3_NeverRaises ==
    /\ pc # "raised"
    /\ raised = "none"
    /\ (pc = "dev_done" /\ output = << >>) => devices = << >>

(***************************************************************************)
(* C4                                                                      *)
(***************************************************************************)
\* C4: a line B whose third segment holds the seven canonical tokens parses to
\* the same aiCore, memUsed, memTotal, hbmUsed and hbmTotal, namely the five
\* values written, whether each numeral is followed by " /" or glued to "/".
C4_GluedEqualsSpaced ==
    pc = "dev_done" =>
        \A n \in 1..Len(devices) : \A c \in GluedLines :
            data_lines[2 * n] = c.line =>
                /\ devices[n].ai_core   = Dec(c.v[1])
                /\ devices[n].mem_used  = Dec(c.v[2])
                /\ devices[n].mem_total = Dec(c.v[3])
                /\ devices[n].hbm_used  = Dec(c.v[4])
                /\ devices[n].hbm_total = Dec(c.v[5])

\* the spaced and the doubly glued form of the same values, both parsed
C4_Witness ==
    /\ pc = "dev_done"
    /\ Len(devices) = 2
    /\ data_lines[2] = LineB(0, Seg3(<< 57, 3, 15, 30431, 32768 >>, {}))
    /\ data_lines[4] = LineB(1, Seg3(<< 57, 3, 15, 30431, 32768 >>, {1, 2}))
    /\ devices[2].hbm_used = Dec(30431) /\ devices[2].hbm_total = Dec(32768)
    /\ devices[1].hbm_used = Dec(30431) /\ devices[1].hbm_total = Dec(32768)
    /\ devices[2].mem_used = Dec(3) /\ devices[2].mem_total = Dec(15)

(***************************************************************************)
(* C5                                                                      *)
(***************************************************************************)
\* the candidate lines a freely composed section was written with
CandidatesWritten == SelectSeq(output, IsKnown)

\* C5: a device section with n well-formed candidate lines yields floor(n/2)
\* records in report order, the k-th from candidate lines 2k-1 (id, name) and
\* 2k (chip, bus id, HBM); a trailing unpaired line yields nothing.
C5_PairsInOrder ==
    (pc = "dev_done" /\ \A n \in 1..Len(output) : output[n] \in FreeDevLines) =>
        /\ Len(devices) = Len(CandidatesWritten) \div 2
        /\ \A n \in 1..Len(devices) :
              LET a == Known(CandidatesWritten[2 * n - 1])
                  b == Known(CandidatesWritten[2 * n])
              IN  /\ devices[n].id = Dec(a.id)
                  /\ devices[n].name = a.name
                  /\ devices[n].health = a.seg2
                  /\ devices[n].chip = b.seg1
                  /\ devices[n].bus_id = b.seg2
                  /\ devices[n].hbm_used = Dec(b.hbm)

\* three candidate lines (and a border between them): one record
C5_Witness ==
    /\ pc = "dev_done"
    /\ output = << A(1), BORDER, B(1), A(0) >>
    /\ Len(data_lines) = 3
    /\ Len(devices) = 1
    /\ devices[1].id = Dec(1) /\ devices[1].hbm_used = Dec(3044)

C10_RenderedAfterNoData ==
    (pc = "render" /\ prev_nodata /\ output = GoodReport) => ~exception_triggered

====
